---- MODULE Spec2Model ----
(***************************************************************************)
(* Model of the RPG build system (build.py): main() iterating the selected *)
(* targets, BuildSystem.build_project driving one dotnet child process     *)
(* with two reader threads and a polling consumer loop, the progress       *)
(* classifier, the archive packager and the build logger.                  *)
(*                                                                         *)
(* Text is modelled as a sequence of tokens (words, punctuation, " " and   *)
(* "\n"); a line is the token sequence readline() returns.  Two adjacent   *)
(* word tokens never occur in a line (they would be one word).             *)
(***************************************************************************)
EXTENDS Integers, Sequences, FiniteSets, TLC

(***************************************************************************)
(* Bounds of the model.                                                    *)
(***************************************************************************)
\* lines the child processes write in all, over both streams
MaxLines == 2
\* calls of build_project in all, over any number of runs of main(): the operator
\* ticks no more targets than are left
MaxAttempts == 2
\* the clock shows 0..MaxClock seconds
MaxClock == 1
\* phrases in a line handed to parse_build_progress on its own
MaxPhrases == 3

(***************************************************************************)
(* BuildSystem.__init__: the target matrix.                                *)
(***************************************************************************)
platforms ==
    [windows |-> <<"x64", "x86", "arm64">>,
     linux   |-> <<"x64", "arm64">>,
     osx     |-> <<"x64", "arm64">>]

runtimes == [windows |-> "win", linux |-> "linux", osx |-> "osx"]

\* the order in which dict.items() yields the platforms
platform_order == <<"windows", "linux", "osx">>

get_runtime_id(os_name, arch) == <<runtimes[os_name], "-", arch>>

(***************************************************************************)
(* Tokens and the pattern language of the marker tables.  A pattern is a   *)
(* sequence of atoms; an atom accepts one token of its set, or one or more *)
(* when plus is set.  re.IGNORECASE: tokens are compared case-folded.      *)
(***************************************************************************)
Whitespace == {" ", "\n"}

\* str.lower() on the tokens that have upper-case letters
LowerTable ==
    "AOT" :> "aot" @@
    "Build" :> "build" @@
    "CS1009" :> "cs1009" @@
    "Compilation" :> "compilation" @@
    "Compiling" :> "compiling" @@
    "ComputeIlToNativePaths" :> "computeiltonativepaths" @@
    "ComputeResolvedFilesToPublishList" :> "computeresolvedfilestopublishlist" @@
    "CopyFilesToOutputDirectory" :> "copyfilestooutputdirectory" @@
    "CopyFilesToPublishDirectory" :> "copyfilestopublishdirectory" @@
    "CoreCompile" :> "corecompile" @@
    "CoreGenerateAssemblyInfo" :> "coregenerateassemblyinfo" @@
    "Could" :> "could" @@
    "Debug" :> "debug" @@
    "Csc" :> "csc" @@
    "Determining" :> "determining" @@
    "EXEC" :> "exec" @@
    "Error" :> "error" @@
    "Exception" :> "exception" @@
    "FAILED" :> "failed" @@
    "GenerateNativeImages" :> "generatenativeimages" @@
    "GenerateTargetFrameworkMonikerAttribute" :> "generatetargetframeworkmonikerattribute" @@
    "Generating" :> "generating" @@
    "GetCopyToOutputDirectoryItems" :> "getcopytooutputdirectoryitems" @@
    "ILCompiler" :> "ilcompiler" @@
    "IlcCompile" :> "ilccompile" @@
    "Linking" :> "linking" @@
    "MSB3026" :> "msb3026" @@
    "Native" :> "native" @@
    "Optimizing" :> "optimizing" @@
    "Published" :> "published" @@
    "Release" :> "release" @@
    "Restored" :> "restored" @@
    "RunNgeni" :> "runngeni" @@
    "The" :> "the" @@
    "_ComputeIncrementalInputs" :> "_computeincrementalinputs" @@
    "_CopyResolvedFilesToPublishLocal" :> "_copyresolvedfilestopublishlocal" @@
    "_CopyResolvedFilesToPublishPreserveNewest" :>
        "_copyresolvedfilestopublishpreservenewest" @@
    "_CopySourceItemsToOutputDirectory" :> "_copysourceitemstooutputdirectory" @@
    "_CreateAppHost" :> "_createapphost" @@
    "_CreateIlcDirectory" :> "_createilcdirectory" @@
    "_DeploymentUnpublishable" :> "_deploymentunpublishable" @@
    "_GenerateBundle" :> "_generatebundle" @@
    "_GenerateCrossgenProfilingSymbols" :> "_generatecrossgenprofilingsymbols" @@
    "_InitializeIlcParameters" :> "_initializeilcparameters" @@
    "_InitializeSourceControlInformation" :> "_initializesourcecontrolinformation" @@
    "_LinkNative" :> "_linknative" @@
    "_PublishBuildAlternative" :> "_publishbuildalternative" @@
    "_PublishNativeImages" :> "_publishnativeimages" @@
    "_ResolveCompileToolPaths" :> "_resolvecompiletoolpaths" @@
    "_StartupTracker" :> "_startuptracker" @@
    "_WriteIlcRspFile" :> "_writeilcrspfile"

lower(t) == IF t \in DOMAIN LowerTable THEN LowerTable[t] ELSE t

\* the tokens of the vocabulary that the classes [\w\s/], [A-Z]+\d+, MSB\d+ and
\* NETSDK\d+ accept (every token of the vocabulary is in the first class)
PathTokens ==
    {"Build", "build", "started", "succeeded", "FAILED", "Linking", "native", "binary",
     "Error", "CS1009", "MSB3026", "Restored", "packages", "/", "warning", " ", "\n"}
CodeTokens == {"CS1009", "MSB3026"}
MsbTokens == {"MSB3026"}
NetsdkTokens == {}

Fold(S) == {lower(t) : t \in S}

Lit(w) == [set |-> {lower(w)}, plus |-> FALSE]
Sp == [set |-> {" "}, plus |-> FALSE]
WsPlus == [set |-> Whitespace, plus |-> TRUE]
PathPlus == [set |-> Fold(PathTokens), plus |-> TRUE]
Code == [set |-> Fold(CodeTokens), plus |-> FALSE]
Msb == [set |-> Fold(MsbTokens), plus |-> FALSE]
Netsdk == [set |-> Fold(NetsdkTokens), plus |-> FALSE]

progress_markers ==
    << <<<<Lit("Determining"), Sp, Lit("projects"), Sp, Lit("to"), Sp, Lit("restore")>>, 2>>,
       <<<<Lit("Restored"), WsPlus, PathPlus, Lit("packages")>>, 5>>,
       <<<<Lit("Restored"), WsPlus, PathPlus, Lit(".csproj")>>, 8>>,
       <<<<Lit("Build"), Sp, Lit("started")>>, 10>>,
       <<<<Lit("Compiling"), WsPlus, PathPlus, Lit(".cs")>>, 12>>,
       <<<<Lit("CoreGenerateAssemblyInfo")>>, 14>>,
       <<<<Lit("GenerateTargetFrameworkMonikerAttribute")>>, 15>>,
       <<<<Lit("CoreCompile"), Sp, Lit("target")>>, 18>>,
       <<<<Lit("Csc"), Sp, Lit("target")>>, 20>>,
       <<<<Lit("_InitializeSourceControlInformation")>>, 22>>,
       <<<<Lit("GetCopyToOutputDirectoryItems")>>, 25>>,
       <<<<Lit("_CopySourceItemsToOutputDirectory")>>, 28>>,
       <<<<Lit("CopyFilesToOutputDirectory")>>, 30>>,
       <<<<Lit("Build"), Sp, Lit("succeeded")>>, 35>>,
       <<<<Lit("_InitializeIlcParameters")>>, 38>>,
       <<<<Lit("_WriteIlcRspFile")>>, 40>>,
       <<<<Lit("IlcCompile"), Sp, Lit("target")>>, 42>>,
       <<<<Lit("_LinkNative"), Sp, Lit("target")>>, 45>>,
       <<<<Lit("_CreateIlcDirectory")>>, 48>>,
       <<<<Lit("ComputeResolvedFilesToPublishList")>>, 50>>,
       <<<<Lit("CopyFilesToPublishDirectory")>>, 52>>,
       <<<<Lit("_CopyResolvedFilesToPublishLocal")>>, 55>>,
       <<<<Lit("_CopyResolvedFilesToPublishPreserveNewest")>>, 58>>,
       <<<<Lit("_DeploymentUnpublishable")>>, 60>>,
       <<<<Lit("GenerateNativeImages")>>, 65>>,
       <<<<Lit("Optimizing"), Sp, Lit("assemblies")>>, 68>>,
       <<<<Lit("RunNgeni"), Sp, Lit("target")>>, 70>>,
       <<<<Lit("ComputeIlToNativePaths")>>, 72>>,
       <<<<Lit("_StartupTracker")>>, 75>>,
       <<<<Lit("_ResolveCompileToolPaths")>>, 78>>,
       <<<<Lit("_ComputeIncrementalInputs")>>, 80>>,
       <<<<Lit("_GenerateCrossgenProfilingSymbols")>>, 82>>,
       <<<<Lit("_PublishBuildAlternative")>>, 85>>,
       <<<<Lit("_PublishNativeImages")>>, 88>>,
       <<<<Lit("_GenerateBundle")>>, 90>>,
       <<<<Lit("_CreateAppHost")>>, 92>>,
       <<<<Lit("Published"), WsPlus, PathPlus, Lit(".csproj")>>, 95>>,
       <<<<Lit("Generating"), Sp, Lit("native"), Sp, Lit("code")>>, 97>>,
       <<<<Lit("Linking"), Sp, Lit("native"), Sp, Lit("binary")>>, 98>> >>

error_markers ==
    << <<Lit("Build"), Sp, Lit("FAILED")>>,
       <<Lit("Error"), WsPlus, Code>>,
       <<Lit("Could"), Sp, Lit("not"), Sp, Lit("find"), Sp, Lit("a"), Sp, Lit("part"), Sp,
         Lit("of"), Sp, Lit("the"), Sp, Lit("path")>>,
       <<Lit("The"), Sp, Lit("system"), Sp, Lit("cannot"), Sp, Lit("find"), Sp, Lit("the"), Sp,
         Lit("path"), Sp, Lit("specified")>>,
       <<Lit("EXEC"), Sp, Lit(":"), Sp, Lit("error")>>,
       <<Lit("ILCompiler"), Sp, Lit("error")>>,
       <<Lit("Native"), Sp, Lit("linking"), Sp, Lit("error")>>,
       <<Lit("AOT"), Sp, Lit("Compilation"), Sp, Lit("failed")>>,
       <<Lit("Compilation"), Sp, Lit("failed"), Sp, Lit("for")>>,
       <<Msb>>,
       <<Netsdk>>,
       <<Lit("Exception"), Sp, Lit("during"), Sp, Lit("compilation:")>> >>

RECURSIVE MatchFrom(_, _, _, _)
MatchFrom(p, k, text, i) ==
    IF k > Len(p) THEN TRUE
    ELSE IF i > Len(text) THEN FALSE
    ELSE IF lower(text[i]) \notin p[k].set THEN FALSE
    ELSE \/ p[k].plus /\ MatchFrom(p, k, text, i + 1)
         \/ MatchFrom(p, k + 1, text, i + 1)

\* re.search(pattern, line, re.IGNORECASE)
re_search(p, text) == \E i \in 1..(Len(text) + 1) : MatchFrom(p, 1, text, i)

\* str.strip(): leading and trailing whitespace removed
RECURSIVE lstrip(_)
lstrip(s) == IF s # <<>> /\ Head(s) \in Whitespace THEN lstrip(Tail(s)) ELSE s

RECURSIVE rstrip(_)
rstrip(s) ==
    IF s # <<>> /\ s[Len(s)] \in Whitespace THEN rstrip(SubSeq(s, 1, Len(s) - 1)) ELSE s

strip(s) == rstrip(lstrip(s))

\* '\n'.join(lines)
RECURSIVE join(_)
join(lines) ==
    IF lines = <<>> THEN <<>>
    ELSE IF Len(lines) = 1 THEN lines[1]
    ELSE lines[1] \o <<"\n">> \o join(Tail(lines))

\* None where the code has an integer or None (no percentage and no exit code is -2)
None == -2

\* a stored percentage that follows the latest value
Max_latest(a, b) == b

Max(a, b) == IF a >= b THEN a ELSE b

\* a loop that keeps the percentage of the first marker that matches
RECURSIVE highest_progress_first_match(_, _, _)
highest_progress_first_match(text, k, highest) ==
    IF k > Len(progress_markers) THEN highest
    ELSE LET pattern == progress_markers[k][1]
             percentage == progress_markers[k][2]
         IN  IF re_search(pattern, text) /\ highest = None
             THEN highest_progress_first_match(text, k + 1, percentage)
             ELSE highest_progress_first_match(text, k + 1, highest)

\* the second loop of parse_build_progress: the highest matching percentage
RECURSIVE highest_progress(_, _, _)
highest_progress(text, k, highest) ==
    IF k > Len(progress_markers) THEN highest
    ELSE LET pattern == progress_markers[k][1]
             percentage == progress_markers[k][2]
         IN  IF re_search(pattern, text) /\ (highest = None \/ percentage > highest)
             THEN highest_progress(text, k + 1, percentage)
             ELSE highest_progress(text, k + 1, highest)

\* a parse_build_progress that looks at the progress markers first
parse_build_progress_progress_first(text) ==
    IF highest_progress(text, 1, None) # None
    THEN highest_progress(text, 1, None)
    ELSE IF \E k \in 1..Len(error_markers) : re_search(error_markers[k], text)
         THEN -1
         ELSE None

parse_build_progress(text) ==
    IF \E k \in 1..Len(error_markers) : re_search(error_markers[k], text)
    THEN -1
    ELSE highest_progress(text, 1, None)

(***************************************************************************)
(* Inputs of the model: what the operator selects and what a child process *)
(* may print.  stdout and stderr carry different lines, so a line's text   *)
(* tells the stream it was written to.                                     *)
(***************************************************************************)
Offered == {<<"windows", "x64">>, <<"linux", "x64">>}

Configs == {"Release"}

StreamLines ==
    [stdout |-> {<<" ", "Build", " ", "started", "\n">>,
                 <<"Linking", " ", "native", " ", "binary", "\n">>},
     stderr |-> {<<"Build", " ", "FAILED", "\n">>}]

Streams == {"stdout", "stderr"}

\* parse_build_progress of every line the consumer can observe, computed once
ObservedLines == {strip(l) : l \in StreamLines.stdout \cup StreamLines.stderr}

progress_of == [l \in ObservedLines |-> parse_build_progress(l)]

ExitCodes == {0, 1}

\* str(e) of the exceptions the model raises: they all print the same text
Errno == <<"Errno", " ", "13">>

\* the calls that may raise: the file and process operations, and the caller's
\* progress_callback (update_progress of main does not raise)
IOFaults == {"rmtree", "Popen", "make_archive", "create_build_log"}
AllFaults == IOFaults \cup {"progress_callback"}

VARIABLES
    pc,                 \* where the main thread is
    selected_platforms, \* main: the targets of this run, in order
    config,             \* main: the build configuration of this run
    idx,                \* main: position of the for loop in selected_platforms
    completed,          \* main: progress.tasks[build_task].completed
    results_table,      \* main: the rows of the final table
    outcomes,           \* history: the success flags build_project returned in this run
    spawned,            \* history: the targets whose process was spawned in this run
    attempt,            \* number of build_project calls so far
    emitted,            \* number of lines the child processes have written so far
    process,            \* the child process of the current attempt
    pipe,               \* lines written to each pipe and not yet read
    written,            \* history: lines the child has written to each stream
    threads,            \* state of the two reader threads
    output_queue,       \* build_project: output_queue
    output,             \* build_project: output
    line,               \* build_project: line, or <<>>
    progress,           \* build_project: progress
    last_progress,      \* build_project: last_progress
    reports,            \* history: the calls of progress_callback, in order
    success,            \* build_project: success
    exc,                \* str(e) of the exception being handled, or <<>>
    raised,             \* history: the call that raised in this attempt, or ""
    result,             \* the tuple build_project returned, or <<>>
    package_calls,      \* history: calls of create_zip or create_tarball in this attempt
    log_calls,          \* history: calls of create_build_log in this attempt
    log_file,           \* history: the log file this attempt wrote, or <<>>
    log_writes,         \* history: create_build_log calls that wrote their file, in all
    output_dirs,        \* publish/<os>-<arch> directories and whose products they hold
    archives,           \* archive files in publish/ and what they hold
    build_logs,         \* files in build_logs/ and their content
    now,                \* the clock, in seconds
    orphans,            \* child processes still running after their attempt returned
    no_callback         \* the same calls made with progress_callback=None: their output,
                        \* success, result, log_file, archives and build_logs

attempt_vars ==
    <<process, pipe, written, threads, output_queue, output, line, progress, last_progress,
      reports, success, exc, raised, result, package_calls, log_calls, log_file>>

main_vars ==
    <<selected_platforms, config, idx, completed, results_table, outcomes, spawned>>

fs_vars == <<output_dirs, archives, build_logs, now>>

vars ==
    <<pc, main_vars, attempt, emitted, attempt_vars, log_writes, fs_vars, orphans,
      no_callback>>

\* main always passes update_progress as progress_callback
progress_callback == TRUE

os_name == selected_platforms[idx][1]
arch == selected_platforms[idx][2]

NoProcess == [state |-> "none", code |-> None, returncode |-> None]

\* the choices get_build_choices offers, in order
RECURSIVE choices_of(_, _)
choices_of(os, k) ==
    IF k > Len(platforms[os]) THEN <<>>
    ELSE <<(<<os, platforms[os][k]>>)>> \o choices_of(os, k + 1)

platform_choices ==
    choices_of(platform_order[1], 1) \o choices_of(platform_order[2], 1)
        \o choices_of(platform_order[3], 1)

\* questionary.checkbox: the ticked choices, in the order they are offered
RECURSIVE ticked(_, _)
ticked(S, k) ==
    IF k > Len(platform_choices) THEN <<>>
    ELSE IF platform_choices[k] \in S THEN <<platform_choices[k]>> \o ticked(S, k + 1)
    ELSE ticked(S, k + 1)

Remove(f, x) == [y \in DOMAIN f \ {x} |-> f[y]]

Put(f, x, v) == (x :> v) @@ f

\* a record that keeps the output and the percentage of the attempt before
FreshAttempt_keeps_output ==
    /\ process' = NoProcess
    /\ pipe' = [s \in Streams |-> <<>>]
    /\ written' = [s \in Streams |-> <<>>]
    /\ threads' = [s \in Streams |-> "none"]
    /\ output_queue' = <<>>
    /\ line' = <<>>
    /\ progress' = None
    /\ reports' = <<>>
    /\ success' = FALSE
    /\ exc' = <<>>
    /\ raised' = ""
    /\ result' = <<>>
    /\ package_calls' = 0
    /\ log_calls' = 0
    /\ log_file' = <<>>
    /\ no_callback' = [no_callback EXCEPT !.output = <<>>, !.success = FALSE,
                                          !.result = <<>>, !.log_file = <<>>]
    /\ UNCHANGED <<output, last_progress>>

FreshAttempt ==
    /\ process' = NoProcess
    /\ pipe' = [s \in Streams |-> <<>>]
    /\ written' = [s \in Streams |-> <<>>]
    /\ threads' = [s \in Streams |-> "none"]
    /\ output_queue' = <<>>
    /\ output' = <<>>
    /\ line' = <<>>
    /\ progress' = None
    /\ last_progress' = 0
    /\ reports' = <<>>
    /\ success' = FALSE
    /\ exc' = <<>>
    /\ raised' = ""
    /\ result' = <<>>
    /\ package_calls' = 0
    /\ log_calls' = 0
    /\ log_file' = <<>>
    /\ no_callback' = [no_callback EXCEPT !.output = <<>>, !.success = FALSE,
                                          !.result = <<>>, !.log_file = <<>>]

\* a child process that outlives its attempt keeps running on its own
Abandon ==
    orphans' = IF process.state = "running"
               THEN orphans \cup {[target |-> selected_platforms[idx], attempt |-> attempt]}
               ELSE orphans

\* nothing requested, nothing built, empty directories
Idle ==
    /\ selected_platforms = <<>>
    /\ config = ""
    /\ idx = 0
    /\ completed = 0
    /\ results_table = <<>>
    /\ outcomes = <<>>
    /\ spawned = <<>>
    /\ attempt = 0
    /\ emitted = 0
    /\ process = NoProcess
    /\ pipe = [s \in Streams |-> <<>>]
    /\ written = [s \in Streams |-> <<>>]
    /\ threads = [s \in Streams |-> "none"]
    /\ output_queue = <<>>
    /\ output = <<>>
    /\ progress = None
    /\ last_progress = 0
    /\ reports = <<>>
    /\ success = FALSE
    /\ exc = <<>>
    /\ raised = ""
    /\ result = <<>>
    /\ package_calls = 0
    /\ log_calls = 0
    /\ log_file = <<>>
    /\ log_writes = 0
    /\ output_dirs = <<>>
    /\ archives = <<>>
    /\ build_logs = <<>>
    /\ now = 0
    /\ orphans = {}
    /\ no_callback = [output |-> <<>>, success |-> FALSE, result |-> <<>>,
                      log_file |-> <<>>, archives |-> <<>>, build_logs |-> <<>>]

Init ==
    /\ pc = "init"
    /\ line = <<>>
    /\ Idle

(***************************************************************************)
(* The file operations of BuildSystem.                                     *)
(***************************************************************************)
log_name(os, a, timestamp) == <<"build", os, a, timestamp>>

\* a log whose status line says the opposite of the flag
log_text_inverted(os, a, ok, out) ==
    << <<"Build for", os, "-", a>>,
       <<"Status:", IF ok THEN "Failed" ELSE "Success">>,
       <<"=== Build Output ===">>,
       out >>

\* the four writes of create_build_log
log_text(os, a, ok, out) ==
    << <<"Build for", os, "-", a>>,
       <<"Status:", IF ok THEN "Success" ELSE "Failed">>,
       <<"=== Build Output ===">>,
       out >>

\* a create_build_log that opens the file for appending
create_build_log_append(logs, os, a, ok, out, timestamp) ==
    Put(logs, log_name(os, a, timestamp),
        (IF log_name(os, a, timestamp) \in DOMAIN logs
         THEN logs[log_name(os, a, timestamp)] ELSE <<>>) \o log_text(os, a, ok, out))

\* open(log_file, 'w') truncates an existing file before the writes
create_build_log(logs, os, a, ok, out, timestamp) ==
    Put(logs, log_name(os, a, timestamp), log_text(os, a, ok, out))

\* shutil.rmtree(output_path) when the directory exists
rmtree(dirs, os, a) == Remove(dirs, <<os, a>>)

\* the child process writes its build products into output_path
publish_into(dirs, target, a) ==
    Put(dirs, target, (IF target \in DOMAIN dirs THEN dirs[target] ELSE {}) \cup {a})

archive_name(os, a, cfg) == <<"RPG", os, a, lower(cfg)>>

create_zip(files, source, name) == Put(files, <<name, "zip">>, source)

create_tarball(files, source, name) == Put(files, <<name, "tar.gz">>, source)

\* a packaging step that makes a zip on every platform
make_package_always_zip(files, dirs, os, a, cfg) ==
    create_zip(files, dirs[<<os, a>>], archive_name(os, a, cfg))

make_package(files, dirs, os, a, cfg) ==
    IF os = "windows"
    THEN create_zip(files, dirs[<<os, a>>], archive_name(os, a, cfg))
    ELSE create_tarball(files, dirs[<<os, a>>], archive_name(os, a, cfg))

\* update_progress: the bar only moves forward
update_progress(done, percentage) == Max(done, percentage)

(***************************************************************************)
(* build_project: the except branch.  The handler runs in the step that    *)
(* raises: it logs the attempt as failed and returns (False, str(e)); an   *)
(* exception raised by the handler itself leaves build_project and main.   *)
(* `call` names the call that raised, `calls` counts the create_build_log  *)
(* calls of the step, F is the set of calls that may raise, `twin` is the  *)
(* record of the same call made without a callback after this step: that   *)
(* call runs the handler for every exception but the one of the callback.  *)
(***************************************************************************)
HandleException(call, calls, F, twin) ==
    /\ exc' = Errno
    /\ raised' = call
    /\ log_calls' = log_calls + calls
    /\ \E timestamp \in now..MaxClock :
          /\ now' = timestamp
          /\ \/ /\ build_logs' = create_build_log(build_logs, os_name, arch, FALSE, Errno,
                                                  timestamp)
                /\ log_file' = log_name(os_name, arch, timestamp)
                /\ log_writes' = log_writes + 1
                /\ result' = <<FALSE, Errno>>
                /\ pc' = "returned"
                /\ no_callback' =
                      IF call = "progress_callback"
                      THEN twin
                      ELSE [twin EXCEPT
                              !.build_logs = create_build_log(@, os_name, arch, FALSE,
                                                              Errno, timestamp),
                              !.log_file = log_name(os_name, arch, timestamp),
                              !.result = <<FALSE, Errno>>]
             \/ /\ "create_build_log" \in F
                /\ pc' = "exit_error"
                /\ no_callback' = twin
                /\ UNCHANGED <<build_logs, log_file, log_writes, result>>

(***************************************************************************)
(* main()                                                                  *)
(***************************************************************************)
MainStart ==
    /\ pc \in {"init", "exit_ok", "exit_early", "exit_error"}
    /\ Abandon
    /\ FreshAttempt
    /\ completed' = 0
    /\ results_table' = <<>>
    /\ outcomes' = <<>>
    /\ spawned' = <<>>
    /\ \E S \in SUBSET Offered, c \in Configs, go \in BOOLEAN :
          /\ attempt + Cardinality(S) <= MaxAttempts
          /\ selected_platforms' = ticked(S, 1)
          /\ config' = c
          /\ IF S # {} /\ go
             THEN pc' = "loop" /\ idx' = 1
             ELSE pc' = "exit_early" /\ idx' = 0
    /\ UNCHANGED <<attempt, emitted, log_writes, fs_vars>>

\* the loop body up to the clearing of the output directory in build_project
BuildStart(F) ==
    /\ pc = "loop"
    /\ idx <= Len(selected_platforms)
    /\ attempt' = attempt + 1
    /\ completed' = 0
    /\ \/ /\ os_name \in DOMAIN runtimes
          /\ output_dirs' = rmtree(output_dirs, os_name, arch)
          /\ pc' = "spawn"
          /\ UNCHANGED <<exc, raised, result, log_calls, log_file, log_writes,
                         build_logs, now, no_callback>>
       \/ /\ os_name \in DOMAIN runtimes
          /\ "rmtree" \in F
          /\ <<os_name, arch>> \in DOMAIN output_dirs
          /\ HandleException("rmtree", 1, F, no_callback)
          /\ UNCHANGED output_dirs
       \* self.runtimes[os_name] is evaluated before the try block: its KeyError
       \* goes to the caller
       \/ /\ os_name \notin DOMAIN runtimes
          /\ raised' = "get_runtime_id"
          /\ pc' = "exit_error"
          /\ UNCHANGED <<exc, result, log_calls, log_file, log_writes, build_logs, now,
                         output_dirs, no_callback>>
    /\ UNCHANGED <<selected_platforms, config, idx, results_table, outcomes, spawned,
                   emitted, process, pipe, written, threads, output_queue, output, line,
                   progress, last_progress, reports, success, package_calls, archives,
                   orphans>>

\* subprocess.Popen and the start of the two reader threads
Popen(F) ==
    /\ pc = "spawn"
    /\ \/ /\ process' = [state |-> "running", code |-> None, returncode |-> None]
          /\ spawned' = Append(spawned, selected_platforms[idx])
          /\ threads' = [s \in Streams |-> "running"]
          /\ pc' = "drain"
          /\ UNCHANGED <<exc, raised, result, log_calls, log_file, log_writes,
                         build_logs, now, no_callback>>
       \/ /\ "Popen" \in F
          /\ HandleException("Popen", 1, F, no_callback)
          /\ UNCHANGED <<process, spawned, threads>>
    /\ UNCHANGED <<selected_platforms, config, idx, completed, results_table, outcomes,
                   attempt, emitted, pipe, written, output_queue, output, line, progress,
                   last_progress, reports, success, package_calls, output_dirs, archives,
                   orphans>>

(***************************************************************************)
(* The child process and the two reader threads.                           *)
(***************************************************************************)
ProcWrite(s) ==
    /\ process.state = "running"
    /\ emitted < MaxLines
    /\ emitted' = emitted + 1
    /\ \E l \in StreamLines[s] :
          /\ pipe' = [pipe EXCEPT ![s] = Append(@, l)]
          /\ written' = [written EXCEPT ![s] = Append(@, l)]
    /\ UNCHANGED <<pc, main_vars, attempt, process, threads, output_queue, output, line,
                   progress, last_progress, reports, success, exc, raised, result,
                   package_calls, log_calls, log_file, log_writes, fs_vars, orphans,
                   no_callback>>

ProcExit ==
    /\ process.state = "running"
    /\ \E code \in ExitCodes :
          /\ process' = [process EXCEPT !.state = "exited", !.code = code]
          /\ output_dirs' = IF code = 0
                            THEN publish_into(output_dirs, selected_platforms[idx], attempt)
                            ELSE output_dirs
    /\ UNCHANGED <<pc, main_vars, attempt, emitted, pipe, written, threads, output_queue,
                   output, line, progress, last_progress, reports, success, exc, raised,
                   result, package_calls, log_calls, log_file, log_writes, archives,
                   build_logs, now, orphans, no_callback>>

\* an enqueue_output that reads the newest line of the pipe first
Reader_newest_first(s) ==
    /\ threads[s] = "running"
    /\ pc # "exit_error"
    /\ IF pipe[s] # <<>>
       THEN /\ output_queue' = Append(output_queue, pipe[s][Len(pipe[s])])
            /\ pipe' = [pipe EXCEPT ![s] = SubSeq(@, 1, Len(@) - 1)]
            /\ UNCHANGED threads
       ELSE /\ process.state = "exited"
            /\ threads' = [threads EXCEPT ![s] = "done"]
            /\ UNCHANGED <<output_queue, pipe>>
    /\ UNCHANGED <<pc, main_vars, attempt, emitted, process, written, output, line,
                   progress, last_progress, reports, success, exc, raised, result,
                   package_calls, log_calls, log_file, log_writes, fs_vars, orphans,
                   no_callback>>

\* enqueue_output: one readline; at end of file the thread ends.  The threads
\* are daemon threads: they end with the interpreter.
Reader(s) ==
    /\ threads[s] = "running"
    /\ pc # "exit_error"
    /\ IF pipe[s] # <<>>
       THEN /\ output_queue' = Append(output_queue, Head(pipe[s]))
            /\ pipe' = [pipe EXCEPT ![s] = Tail(@)]
            /\ UNCHANGED threads
       ELSE /\ process.state = "exited"
            /\ threads' = [threads EXCEPT ![s] = "done"]
            /\ UNCHANGED <<output_queue, pipe>>
    /\ UNCHANGED <<pc, main_vars, attempt, emitted, process, written, output, line,
                   progress, last_progress, reports, success, exc, raised, result,
                   package_calls, log_calls, log_file, log_writes, fs_vars, orphans,
                   no_callback>>

(***************************************************************************)
(* build_project: the consumer loop.                                       *)
(***************************************************************************)
\* a loop in which an error line resets the stored percentage
ConsumeLine_error_resets(F) ==
    /\ pc = "drain"
    /\ output_queue # <<>>
    /\ LET stripped == strip(Head(output_queue))
           parsed == progress_of[stripped]
           new_last == IF parsed = -1
                       THEN 0
                       ELSE IF parsed # None
                            THEN Max(last_progress, parsed)
                            ELSE last_progress
           text == IF parsed = -1 THEN <<"Error:", " ">> \o stripped ELSE stripped
           twin == [no_callback EXCEPT !.output = Append(@, stripped)]
       IN  /\ output_queue' = Tail(output_queue)
           /\ line' = stripped
           /\ output' = Append(output, stripped)
           /\ IF progress_callback
              THEN /\ progress' = parsed
                   /\ last_progress' = new_last
                   /\ reports' = Append(reports, <<text, new_last>>)
                   /\ \/ /\ completed' = update_progress(completed, new_last)
                         /\ no_callback' = twin
                         /\ UNCHANGED <<pc, exc, raised, result, log_calls, log_file,
                                        log_writes, build_logs, now>>
                      \/ /\ "progress_callback" \in F
                         /\ HandleException("progress_callback", 1, F, twin)
                         /\ UNCHANGED completed
              ELSE /\ no_callback' = twin
                   /\ UNCHANGED <<progress, last_progress, reports, completed, pc, exc,
                                  raised, result, log_calls, log_file, log_writes,
                                  build_logs, now>>
    /\ UNCHANGED <<selected_platforms, config, idx, results_table, outcomes, spawned,
                   attempt, emitted, process, pipe, written, threads, success,
                   package_calls, output_dirs, archives, orphans>>

ConsumeLine(F) ==
    /\ pc = "drain"
    /\ output_queue # <<>>
    /\ LET stripped == strip(Head(output_queue))
           parsed == progress_of[stripped]
           new_last == IF parsed # -1 /\ parsed # None
                       THEN Max(last_progress, parsed)
                       ELSE last_progress
           text == IF parsed = -1 THEN <<"Error:", " ">> \o stripped ELSE stripped
           twin == [no_callback EXCEPT !.output = Append(@, stripped)]
       IN  /\ output_queue' = Tail(output_queue)
           /\ line' = stripped
           /\ output' = Append(output, stripped)
           /\ IF progress_callback
              THEN /\ progress' = parsed
                   /\ last_progress' = new_last
                   /\ reports' = Append(reports, <<text, new_last>>)
                   /\ \/ /\ completed' = update_progress(completed, new_last)
                         /\ no_callback' = twin
                         /\ UNCHANGED <<pc, exc, raised, result, log_calls, log_file,
                                        log_writes, build_logs, now>>
                      \/ /\ "progress_callback" \in F
                         /\ HandleException("progress_callback", 1, F, twin)
                         /\ UNCHANGED completed
              ELSE /\ no_callback' = twin
                   /\ UNCHANGED <<progress, last_progress, reports, completed, pc, exc,
                                  raised, result, log_calls, log_file, log_writes,
                                  build_logs, now>>
    /\ UNCHANGED <<selected_platforms, config, idx, results_table, outcomes, spawned,
                   attempt, emitted, process, pipe, written, threads, success,
                   package_calls, output_dirs, archives, orphans>>

\* a loop that ends at the first timeout, whether or not the process has exited
DrainTimeout_first_timeout ==
    /\ pc = "drain"
    /\ output_queue = <<>>
    /\ process' = [process EXCEPT !.returncode = process.code]
    /\ pc' = "join"
    /\ UNCHANGED <<main_vars, attempt, emitted, pipe, written, threads, output_queue,
                   output, line, progress, last_progress, reports, success, exc, raised,
                   result, package_calls, log_calls, log_file, log_writes, fs_vars,
                   orphans, no_callback>>

\* a loop that reads process.returncode without calling poll()
DrainTimeout_without_poll ==
    /\ pc = "drain"
    /\ output_queue = <<>>
    /\ IF process.returncode # None
       THEN pc' = "join"
       ELSE UNCHANGED pc
    /\ UNCHANGED <<main_vars, attempt, emitted, process, pipe, written, threads,
                   output_queue, output, line, progress, last_progress, reports, success,
                   exc, raised, result, package_calls, log_calls, log_file, log_writes,
                   fs_vars, orphans,
                   no_callback>>

\* queue.Empty: leave the loop when poll() reports that the process has exited
DrainTimeout ==
    /\ pc = "drain"
    /\ output_queue = <<>>
    /\ IF process.state = "exited"
       THEN /\ process' = [process EXCEPT !.returncode = process.code]
            /\ pc' = "join"
       ELSE UNCHANGED <<process, pc>>
    /\ UNCHANGED <<main_vars, attempt, emitted, pipe, written, threads, output_queue,
                   output, line, progress, last_progress, reports, success, exc, raised,
                   result, package_calls, log_calls, log_file, log_writes, fs_vars, orphans,
                   no_callback>>

\* a build_project that does not join its reader threads
JoinThreads_without_join ==
    /\ pc = "join"
    /\ success' = (process.returncode = 0)
    /\ no_callback' = [no_callback EXCEPT !.success = (process.returncode = 0)]
    /\ pc' = IF success' THEN "package" ELSE "log"
    /\ UNCHANGED <<main_vars, attempt, emitted, process, pipe, written, threads,
                   output_queue, output, line, progress, last_progress, reports, exc,
                   raised, result, package_calls, log_calls, log_file, log_writes, fs_vars,
                   orphans>>

JoinThreads ==
    /\ pc = "join"
    /\ \A s \in Streams : threads[s] = "done"
    /\ success' = (process.returncode = 0)
    /\ no_callback' = [no_callback EXCEPT !.success = (process.returncode = 0)]
    /\ pc' = IF success' THEN "package" ELSE "log"
    /\ UNCHANGED <<main_vars, attempt, emitted, process, pipe, written, threads,
                   output_queue, output, line, progress, last_progress, reports, exc,
                   raised, result, package_calls, log_calls, log_file, log_writes, fs_vars,
                   orphans>>

CreatingMsg == <<"Creating", " ", "distribution", " ", "package...">>
CompleteMsg == <<"Build", " ", "complete">>

\* a success branch that makes the archive only when a callback was supplied
Package_only_with_callback(F) ==
    /\ pc = "package"
    /\ LET twin == no_callback
       IN  \/ /\ reports' = reports \o << <<CreatingMsg, 95>>, <<CompleteMsg, 100>> >>
              /\ completed' = update_progress(update_progress(completed, 95), 100)
              /\ archives' = make_package(archives, output_dirs, os_name, arch, config)
              /\ package_calls' = package_calls + 1
              /\ pc' = "log"
              /\ no_callback' = twin
              /\ UNCHANGED <<exc, raised, result, log_calls, log_file, log_writes,
                             build_logs, now>>
           \/ /\ "make_archive" \in F
              /\ reports' = Append(reports, <<CreatingMsg, 95>>)
              /\ completed' = update_progress(completed, 95)
              /\ package_calls' = package_calls + 1
              /\ HandleException("make_archive", 1, F, no_callback)
              /\ UNCHANGED archives
           \/ /\ "progress_callback" \in F
              /\ reports' = Append(reports, <<CreatingMsg, 95>>)
              /\ HandleException("progress_callback", 1, F, twin)
              /\ UNCHANGED <<archives, completed, package_calls>>
           \/ /\ "progress_callback" \in F
              /\ reports' = reports \o << <<CreatingMsg, 95>>, <<CompleteMsg, 100>> >>
              /\ completed' = update_progress(completed, 95)
              /\ archives' = make_package(archives, output_dirs, os_name, arch, config)
              /\ package_calls' = package_calls + 1
              /\ HandleException("progress_callback", 1, F, twin)
    /\ UNCHANGED <<selected_platforms, config, idx, results_table, outcomes, spawned,
                   attempt, emitted, process, pipe, written, threads, output_queue, output,
                   line, progress, last_progress, success, output_dirs, orphans>>

\* the success branch: the packaging and the two reports around it
Package(F) ==
    /\ pc = "package"
    /\ LET twin == IF no_callback.success
                   THEN [no_callback EXCEPT
                           !.archives = make_package(@, output_dirs, os_name, arch, config)]
                   ELSE no_callback
       IN  \/ /\ reports' = reports \o << <<CreatingMsg, 95>>, <<CompleteMsg, 100>> >>
              /\ completed' = update_progress(update_progress(completed, 95), 100)
              /\ archives' = make_package(archives, output_dirs, os_name, arch, config)
              /\ package_calls' = package_calls + 1
              /\ pc' = "log"
              /\ no_callback' = twin
              /\ UNCHANGED <<exc, raised, result, log_calls, log_file, log_writes,
                             build_logs, now>>
           \/ /\ "make_archive" \in F
              /\ reports' = Append(reports, <<CreatingMsg, 95>>)
              /\ completed' = update_progress(completed, 95)
              /\ package_calls' = package_calls + 1
              /\ HandleException("make_archive", 1, F, no_callback)
              /\ UNCHANGED archives
           \/ /\ "progress_callback" \in F
              /\ reports' = Append(reports, <<CreatingMsg, 95>>)
              /\ HandleException("progress_callback", 1, F, twin)
              /\ UNCHANGED <<archives, completed, package_calls>>
           \/ /\ "progress_callback" \in F
              /\ reports' = reports \o << <<CreatingMsg, 95>>, <<CompleteMsg, 100>> >>
              /\ completed' = update_progress(completed, 95)
              /\ archives' = make_package(archives, output_dirs, os_name, arch, config)
              /\ package_calls' = package_calls + 1
              /\ HandleException("progress_callback", 1, F, twin)
    /\ UNCHANGED <<selected_platforms, config, idx, results_table, outcomes, spawned,
                   attempt, emitted, process, pipe, written, threads, output_queue, output,
                   line, progress, last_progress, success, output_dirs, orphans>>

\* full_output, create_build_log and the return
WriteLog(F) ==
    /\ pc = "log"
    /\ \/ \E timestamp \in now..MaxClock :
             /\ now' = timestamp
             /\ build_logs' = create_build_log(build_logs, os_name, arch, success,
                                               join(output), timestamp)
             /\ log_file' = log_name(os_name, arch, timestamp)
             /\ log_calls' = log_calls + 1
             /\ log_writes' = log_writes + 1
             /\ result' = <<success, join(output)>>
             /\ no_callback' =
                   [no_callback EXCEPT
                      !.build_logs = create_build_log(@, os_name, arch, no_callback.success,
                                                      join(no_callback.output), timestamp),
                      !.log_file = log_name(os_name, arch, timestamp),
                      !.result = <<no_callback.success, join(no_callback.output)>>]
             /\ pc' = "returned"
             /\ UNCHANGED <<exc, raised>>
       \/ /\ "create_build_log" \in F
          /\ HandleException("create_build_log", 2, F, no_callback)
    /\ UNCHANGED <<main_vars, attempt, emitted, process, pipe, written, threads,
                   output_queue, output, line, progress, last_progress, reports, success,
                   package_calls, output_dirs, archives, orphans>>

\* a loop that tries a failed target again
Returned_with_retry ==
    /\ pc = "returned"
    /\ completed' = 100
    /\ outcomes' = Append(outcomes, result[1])
    /\ UNCHANGED spawned
    /\ idx' = IF result[1] THEN idx + 1 ELSE idx
    /\ pc' = "loop"
    /\ Abandon
    /\ FreshAttempt
    /\ UNCHANGED <<selected_platforms, config, results_table, attempt, emitted, log_writes,
                   fs_vars>>

\* main after build_project has returned
Returned ==
    /\ pc = "returned"
    /\ completed' = 100
    /\ outcomes' = Append(outcomes, result[1])
    /\ UNCHANGED spawned
    /\ idx' = idx + 1
    /\ pc' = "loop"
    /\ Abandon
    /\ FreshAttempt
    /\ UNCHANGED <<selected_platforms, config, results_table, attempt, emitted, log_writes,
                   fs_vars>>

archive_path(os, a, cfg) ==
    <<archive_name(os, a, cfg), IF os = "windows" THEN "zip" ELSE "tar.gz">>

MainSummary ==
    /\ pc = "loop"
    /\ idx > Len(selected_platforms)
    /\ results_table' =
          [k \in 1..Len(selected_platforms) |->
              <<selected_platforms[k],
                archive_path(selected_platforms[k][1], selected_platforms[k][2], config)
                    \in DOMAIN archives>>]
    /\ pc' = "exit_ok"
    /\ UNCHANGED <<selected_platforms, config, idx, completed, outcomes, spawned, attempt,
                   emitted, attempt_vars, log_writes, fs_vars, orphans,
                   no_callback>>

OrphanExit ==
    /\ \E o \in orphans, code \in ExitCodes :
          /\ orphans' = orphans \ {o}
          /\ output_dirs' = IF code = 0
                            THEN publish_into(output_dirs, o.target, o.attempt)
                            ELSE output_dirs
    /\ UNCHANGED <<pc, main_vars, attempt, emitted, attempt_vars, log_writes, archives,
                   build_logs, now, no_callback>>

\* the steps of the program when the calls in F may raise
NextOf(F) ==
    \/ MainStart
    \/ BuildStart(F)
    \/ Popen(F)
    \/ \E s \in Streams : ProcWrite(s)
    \/ ProcExit
    \/ \E s \in Streams : Reader(s)
    \/ ConsumeLine(F)
    \/ DrainTimeout
    \/ JoinThreads
    \/ Package(F)
    \/ WriteLog(F)
    \/ Returned
    \/ MainSummary

Next == NextOf(AllFaults) \/ OrphanExit

\* the pairs a caller of build_project may pass: the offered ones, an
\* architecture that its platform does not list, and an unknown platform
Requests == Offered \cup {<<"linux", "x86">>, <<"freebsd", "x64">>}

\* a caller that runs the loop of main over one pair of its own choice
Request ==
    /\ pc \in {"init", "exit_ok", "exit_error"}
    /\ Abandon
    /\ FreshAttempt
    /\ completed' = 0
    /\ results_table' = <<>>
    /\ outcomes' = <<>>
    /\ spawned' = <<>>
    /\ \E target \in Requests, c \in Configs :
          /\ attempt + 1 <= MaxAttempts
          /\ selected_platforms' = <<target>>
          /\ config' = c
          /\ pc' = "loop"
          /\ idx' = 1
    /\ UNCHANGED <<attempt, emitted, log_writes, fs_vars>>

NextRequest ==
    \/ Request
    \/ BuildStart({})
    \/ Popen({})
    \/ \E s \in Streams : ProcWrite(s)
    \/ ProcExit
    \/ \E s \in Streams : Reader(s)
    \/ ConsumeLine({})
    \/ DrainTimeout
    \/ JoinThreads
    \/ Package({})
    \/ WriteLog({})
    \/ Returned
    \/ MainSummary

\* build_project with any progress_callback
Spec == Init /\ [][Next]_vars

\* main: file and process operations may raise, update_progress does not
SpecIOFaults == Init /\ [][NextOf(IOFaults)]_vars

\* main when no call raises
SpecNoFaults == Init /\ [][NextOf({})]_vars

\* build_project requested for any pair, no call raising
SpecRequest == Init /\ [][NextRequest]_vars

\* the main thread and the two reader threads are scheduled again and again:
\* queue.get(timeout=0.1) returns, readline returns at a line or at end of file,
\* and the calls that follow the loop return
Fairness ==
    /\ \A s \in Streams : WF_vars(Reader(s))
    /\ WF_vars(ConsumeLine({}))
    /\ WF_vars(DrainTimeout)
    /\ WF_vars(JoinThreads)
    /\ WF_vars(Package({}))
    /\ WF_vars(WriteLog({}))

\* main when no call raises, under fair scheduling of its threads
SpecFair == SpecNoFaults /\ Fairness

(***************************************************************************)
(* parse_build_progress on its own: one call on a line made of up to       *)
(* MaxPhrases phrases of dotnet output separated by single spaces.         *)
(***************************************************************************)
Phrases ==
    {<<"Build", " ", "started">>, <<"build", " ", "succeeded">>,
     <<"Linking", " ", "native", " ", "binary">>, <<"Build", " ", "FAILED">>,
     <<"Error", " ", "CS1009">>, <<"MSB3026">>, <<"Restored">>, <<"packages">>,
     <<"warning">>}

RECURSIVE Spaced(_)
Spaced(ps) ==
    IF Len(ps) = 1 THEN ps[1] ELSE ps[1] \o <<" ">> \o Spaced(Tail(ps))

ParsedLines == {Spaced(ps) : ps \in UNION {[1..n -> Phrases] : n \in 1..MaxPhrases}}

InitParse ==
    /\ pc = "parse"
    /\ line \in ParsedLines
    /\ Idle

\* progress = self.parse_build_progress(line)
Parse ==
    /\ pc = "parse"
    /\ progress' = parse_build_progress(line)
    /\ pc' = "parsed"
    /\ UNCHANGED <<main_vars, attempt, emitted, process, pipe, written, threads,
                   output_queue, output, line, last_progress, reports, success, exc,
                   raised, result, package_calls, log_calls, log_file, log_writes,
                   fs_vars, orphans,
                   no_callback>>

SpecParse == InitParse /\ [][Parse]_vars

(***************************************************************************)
(* Properties.                                                             *)
(***************************************************************************)
written_lines == Len(written.stdout) + Len(written.stderr)

\* the consumer loop has ended through its break
LoopConcluded == pc \in {"join", "package", "log"}

\* C1: when the consumer loop concludes, the accumulated output holds every
\* line the child process wrote, and no line is left in the queue or in a pipe.
C1_EveryLineDelivered ==
    LoopConcluded =>
        /\ Len(output) = written_lines
        /\ output_queue = <<>>
        /\ \A s \in Streams : pipe[s] = <<>>

\* C2: the percentages passed to the progress callback during one attempt,
\* the packaging and completion reports included, never decrease.
C2_ReportsNonDecreasing ==
    \A i, j \in 1..Len(reports) : i < j => reports[i][2] <= reports[j][2]

\* C3: build_project returns success exactly when the exit code it has read
\* from the child process is 0.
C3_ExitCodeDecidesSuccess ==
    (pc = "returned" /\ process.returncode # None) =>
        (result[1] <=> process.returncode = 0)

\* C4: when create_zip or create_tarball raises after the process exited with
\* code 0, the returned result and the log still record success.
C4_PackagingFailureKeepsSuccess ==
    (pc = "returned" /\ raised = "make_archive") =>
        /\ result[1] = TRUE
        /\ build_logs[log_file][2] = <<"Status:", "Success">>

\* C5: no exception leaves build_project, and when a run of main is over every
\* selected target has been attempted.
C5_EveryTargetAttempted ==
    /\ pc # "exit_error"
    /\ pc = "exit_ok" => idx > Len(selected_platforms)

\* C6: when an attempt has returned, the archive of its target exists in the
\* publish directory if and only if the attempt returned success.
C6_ArchiveIffSuccess ==
    pc = "returned" =>
        (archive_path(os_name, arch, config) \in DOMAIN archives <=> result[1])

\* C7: an attempt that is over, whether it returned or its exception left
\* build_project, has called create_build_log exactly once.
C7_LoggedExactlyOnce ==
    pc \in {"returned", "exit_error"} => log_calls = 1

\* C8: no two attempts write the same log file: there are as many log files as
\* logs have been written.
C8_LogNamesDistinct ==
    Cardinality(DOMAIN build_logs) = log_writes

\* the four parts one call of create_build_log writes
OneLog(text) ==
    /\ Len(text) = 4
    /\ text[1][1] = "Build for"
    /\ text[2] \in {<<"Status:", "Success">>, <<"Status:", "Failed">>}
    /\ text[3] = <<"=== Build Output ===">>

\* C9: every log file holds the header and the output of exactly one attempt,
\* also when two attempts wrote the same file.
C9_OneAttemptPerLog ==
    \A f \in DOMAIN build_logs :
        /\ OneLog(build_logs[f])
        /\ build_logs[f][1] = <<"Build for", f[2], "-", f[3]>>

\* two logs have been written to one file
C9_Witness ==
    /\ log_writes = 2
    /\ Cardinality(DOMAIN build_logs) = 1
    /\ pc = "returned"

Contains(text, part) ==
    \E i \in 0..(Len(text) - Len(part)) : SubSeq(text, i + 1, i + Len(part)) = part

\* C10: the log an attempt wrote contains every line the consumer observed
\* in that attempt, in arrival order.
C10_LogHoldsObservedLines ==
    pc = "returned" => Contains(build_logs[log_file][4], join(output))

\* the lines of `lines` that stream s carries, stripped or not
RECURSIVE OfStream(_, _)
OfStream(lines, s) ==
    IF lines = <<>> THEN <<>>
    ELSE IF \E l \in StreamLines[s] : Head(lines) \in {l, strip(l)}
         THEN <<Head(lines)>> \o OfStream(Tail(lines), s)
         ELSE OfStream(Tail(lines), s)

IsPrefix(a, b) == Len(a) <= Len(b) /\ SubSeq(b, 1, Len(a)) = a

\* C11: for each stream, the lines of that stream in the accumulated output
\* are, in the same order, the first lines the process wrote to that stream.
C11_StreamOrderPreserved ==
    \A s \in Streams :
        IsPrefix(OfStream(output, s),
                 [i \in 1..Len(written[s]) |-> strip(written[s][i])])

\* the consumer has observed two different lines of stdout
C11_Witness ==
    /\ Len(written.stdout) = 2
    /\ written.stdout[1] # written.stdout[2]
    /\ Len(OfStream(output, "stdout")) = 2

\* C12: when an attempt has returned, the packager has been invoked in it if
\* and only if the attempt returned success.
C12_PackagedIffSuccess ==
    pc = "returned" => (package_calls > 0 <=> result[1])

\* the phase of the current attempt in the state machine of the orchestrator;
\* Aborted is an attempt whose exception has left build_project
Phase ==
    CASE pc \in {"drain", "join"} -> "Running"
      [] pc = "package" -> "Succeeded"
      [] pc = "log" -> IF success THEN "Packaged" ELSE "Failed"
      [] pc = "returned" -> "LogPersisted"
      [] pc = "exit_error" -> "Aborted"
      [] OTHER -> "NotStarted"

\* the moves of the state machine.  An attempt that fails before or while the
\* process runs counts as passing through Failed on its way to its log, and the
\* next attempt starts from NotStarted again.
PhaseMove ==
    \/ Phase' = Phase
    \/ Phase' = "Aborted"
    \/ Phase = "NotStarted" /\ Phase' = "Running"
    \/ Phase = "Running" /\ Phase' \in {"Succeeded", "Failed"}
    \/ Phase = "Succeeded" /\ Phase' = "Packaged"
    \/ Phase = "Packaged" /\ Phase' = "LogPersisted" /\ result'[1]
    \/ Phase \in {"NotStarted", "Running", "Failed"} /\ Phase' = "LogPersisted"
            /\ ~result'[1]
    \/ Phase \in {"LogPersisted", "Aborted"} /\ Phase' = "NotStarted"

\* C13: an attempt moves through its phases only in the order NotStarted,
\* Running, Succeeded or Failed, Packaged (from Succeeded only), LogPersisted.
C13_PhaseOrder == [][PhaseMove]_vars

\* C14: the final summary has one row per requested target, in order, and a
\* row reports success exactly when the attempt of this run for that target
\* returned success.
C14_SummaryMatchesOutcomes ==
    pc = "exit_ok" =>
        /\ Len(results_table) = Len(selected_platforms)
        /\ \A k \in 1..Len(results_table) :
              /\ results_table[k][1] = selected_platforms[k]
              /\ results_table[k][2] <=> outcomes[k]

matches_error(text) == \E k \in 1..Len(error_markers) : re_search(error_markers[k], text)

\* the percentages of the progress markers that match
matching_percentages(text) ==
    {progress_markers[k][2] :
        k \in {j \in 1..Len(progress_markers) : re_search(progress_markers[j][1], text)}}

\* C15: parse_build_progress returns -1 for exactly the lines that match at
\* least one error marker, whether or not they match progress markers as well.
C15_ErrorMarkerWins ==
    pc = "parsed" => (progress = -1 <=> matches_error(line))

\* a line that matches an error marker and a progress marker has been parsed
C15_Witness ==
    /\ pc = "parsed"
    /\ matches_error(line)
    /\ matching_percentages(line) # {}
    /\ progress = -1

\* C16: for a line that matches no error marker, parse_build_progress returns
\* the greatest percentage among the matching progress markers, and None when
\* no progress marker matches.
C16_MaximumPercentage ==
    (pc = "parsed" /\ ~matches_error(line)) =>
        IF matching_percentages(line) = {}
        THEN progress = None
        ELSE /\ progress \in matching_percentages(line)
             /\ \A m \in matching_percentages(line) : m <= progress

\* a line that matches two progress markers of different percentages and no
\* error marker has been parsed
C16_Witness ==
    /\ pc = "parsed"
    /\ ~matches_error(line)
    /\ Cardinality(matching_percentages(line)) >= 2
    /\ progress # None

\* the pair is in the matrix of BuildSystem
Supported(target) ==
    /\ target[1] \in DOMAIN platforms
    /\ \E k \in 1..Len(platforms[target[1]]) : platforms[target[1]][k] = target[2]

\* C17: a request for a pair outside the matrix spawns no process and records
\* no result and no log: it stays unattempted or is raised to the caller.
C17_UnsupportedRejected ==
    (idx \in 1..Len(selected_platforms) /\ ~Supported(selected_platforms[idx])) =>
        /\ pc \in {"loop", "exit_error"}
        /\ process = NoProcess
        /\ log_calls = 0
        /\ result = <<>>

\* C18: when subprocess.Popen raises, the attempt returns (False, str(e)), its
\* log is written with status Failed and the error text, the packager is not
\* invoked, and control goes back to the loop of main.
C18_SpawnFailureIsolated ==
    raised = "Popen" =>
        /\ pc = "returned"
        /\ result = <<FALSE, Errno>>
        /\ package_calls = 0
        /\ log_file \in DOMAIN build_logs
        /\ build_logs[log_file][2] = <<"Status:", "Failed">>
        /\ build_logs[log_file][4] = Errno

\* the text progress_callback gets for an observed line
reported_text(text) == IF progress_of[text] = -1 THEN <<"Error:", " ">> \o text ELSE text

\* C19: progress_callback has been invoked once for each line the consumer has
\* taken from the queue, in that order, and for nothing else.
C19_OneReportPerLine ==
    /\ Len(reports) = Len(output)
    /\ \A i \in 1..Len(reports) : reports[i][1] = reported_text(output[i])

\* C20: once the child process has exited, so that both its streams reach
\* end of file, build_project eventually returns.
C20_BuildProjectReturns == (process.state = "exited") ~> (pc = "returned")

\* build_project has returned from a process that wrote nothing before it exited
C20_Witness ==
    /\ pc = "returned"
    /\ process.state = "exited"
    /\ written_lines = 0
    /\ \A s \in Streams : threads[s] = "done"

\* C21: in a run of main, when the main thread is outside build_project's
\* pump, that is between two targets or after the last, no child process and
\* no reader thread of any target is running.
C21_OneTargetAtATime ==
    /\ orphans = {}
    /\ pc \in {"loop", "returned", "exit_ok", "exit_early", "exit_error"} =>
          /\ process.state # "running"
          /\ \A s \in Streams : threads[s] # "running"

\* the process of the second target runs after the first target has returned
C21_Witness ==
    /\ idx = 2
    /\ process.state = "running"
    /\ Len(outcomes) = 1

\* C22: within one run the process of a requested target is spawned at most
\* once, and only for requested targets in their order.
C22_SpawnedAtMostOnce ==
    /\ \A i, j \in 1..Len(spawned) : i < j => spawned[i] # spawned[j]
    /\ \A i \in 1..Len(spawned) : \E k \in 1..Len(selected_platforms) :
          spawned[i] = selected_platforms[k]
    /\ Len(spawned) <= Len(selected_platforms)

\* the run has gone on to its second target after the attempt for the first
\* one failed
C22_Witness ==
    /\ Len(outcomes) >= 1
    /\ outcomes[1] = FALSE
    /\ Len(spawned) = 2

\* the file the claim expects for a target: RPG-<platform>-<architecture>-<config
\* lowercased>, a zip on windows and a gzip tarball elsewhere
expected_archive(target, cfg) ==
    << <<"RPG", target[1], target[2], IF cfg = "Release" THEN "release" ELSE "debug">>,
       IF target[1] = "windows" THEN "zip" ELSE "tar.gz" >>

\* C23: every archive is the expected file of some target of the matrix, a
\* completed packaging has made the expected file of its target, and two
\* targets never have the same file.
C23_ArchiveKindAndName ==
    /\ \A f \in DOMAIN archives :
          \E k \in 1..Len(platform_choices), cfg \in {"Debug", "Release"} :
              f = expected_archive(platform_choices[k], cfg)
    /\ (pc = "log" /\ success) =>
          expected_archive(selected_platforms[idx], config) \in DOMAIN archives
    /\ \A i, j \in 1..Len(platform_choices), cfg \in Configs :
          i # j => archive_path(platform_choices[i][1], platform_choices[i][2], cfg)
                      # archive_path(platform_choices[j][1], platform_choices[j][2], cfg)

\* a zip for windows-x64 and a tarball for linux-x64 have both been made
C23_Witness ==
    /\ expected_archive(<<"windows", "x64">>, "Release") \in DOMAIN archives
    /\ expected_archive(<<"linux", "x64">>, "Release") \in DOMAIN archives

\* C24: the consumer loop is left for the code that follows it only in a step
\* that finds the queue empty and the process exited.
C24_LoopEndsAfterExit ==
    [][(pc = "drain" /\ pc' = "join") =>
          /\ output_queue = <<>>
          /\ process.state = "exited"
          /\ process'.returncode = process.code]_vars

\* the loop has ended after it consumed a line
C24_Witness ==
    /\ pc = "join"
    /\ Len(output) >= 1
    /\ process.returncode # None

\* the percentages the classifier returned for the lines
returned_percentages(lines) ==
    {progress_of[lines[i]] : i \in 1..Len(lines)} \ {-1, None}

greatest(S) == CHOOSE m \in S : \A x \in S : x <= m

\* C25: when the consumer loop has ended, last_progress is the greatest of 0
\* and the percentages the classifier returned for the consumed lines.
C25_StoredPercentageIsMaximum ==
    LoopConcluded => last_progress = greatest({0} \cup returned_percentages(output))

\* the loop has ended after a line of 98 percent followed by a line of 10 percent
C25_Witness ==
    /\ LoopConcluded
    /\ Len(output) = 2
    /\ progress_of[output[1]] = 98
    /\ progress_of[output[2]] = 10
    /\ last_progress = 98

\* a step of the consumer loop that takes one line from the queue
ConsumeStep == Len(output') = Len(output) + 1

\* C26: consuming a line classified as an error leaves last_progress unchanged
\* and reports that value, which is the percentage of the report before it;
\* a line that gives a percentage is compared against the stored value.
C26_ErrorKeepsPercentage ==
    [][ConsumeStep =>
          /\ progress' = -1 =>
                /\ last_progress' = last_progress
                /\ reports'[Len(reports')] = <<<<"Error:", " ">> \o line', last_progress>>
                /\ reports # <<>> => reports'[Len(reports')][2] = reports[Len(reports)][2]
          /\ progress' \notin {-1, None} =>
                last_progress' = greatest({last_progress, progress'})]_vars

\* an error line was consumed after a line of 98 percent and reported with 98
C26_Witness ==
    /\ Len(reports) = 2
    /\ reports[1][2] = 98
    /\ progress = -1
    /\ reports[2][2] = 98
    /\ last_progress = 98

\* the process of the current attempt wrote the line text, before stripping
WrittenNow(text) ==
    \E s \in Streams : \E k \in 1..Len(written[s]) : text = strip(written[s][k])

\* C27: the record of an attempt holds only what its own process wrote: every
\* accumulated line and every line reported to the callback is a line of this
\* attempt, the stored percentage is 0 or a percentage of one of these lines,
\* and the result and the log of a completed attempt hold exactly these lines.
C27_FreshRecordPerAttempt ==
    /\ Len(output) + Len(output_queue) <= written_lines
    /\ \A i \in 1..Len(output) : WrittenNow(output[i])
    /\ \A i \in 1..Len(output_queue) : WrittenNow(strip(output_queue[i]))
    /\ last_progress \in {0} \cup returned_percentages(output)
    /\ \A i \in 1..Len(reports) :
          i <= Len(output) =>
             /\ reports[i][1] \in {output[i], <<"Error:", " ">> \o output[i]}
             /\ reports[i][2] \in {0} \cup returned_percentages(SubSeq(output, 1, i))
    /\ pc = "returned" /\ raised = "" =>
          /\ result[2] = join(output)
          /\ build_logs[log_file][4] = join(output)

\* a second attempt returned lines that differ from the lines in the log of the
\* attempt before it
C27_Witness ==
    /\ attempt = 2
    /\ pc = "returned"
    /\ raised = ""
    /\ Len(output) = 1
    /\ \E f \in DOMAIN build_logs :
          /\ f # log_file
          /\ build_logs[f][4] # <<>>
          /\ build_logs[f][4] # result[2]

\* the step in which subprocess.Popen starts the child process of an attempt
SpawnStep == process.state # "running" /\ process'.state = "running"

\* the step in which build_project clears the output directory of its target
ClearStep == pc = "loop" /\ pc' = "spawn"

others(dirs) == DOMAIN dirs \ {<<os_name, arch>>}

\* C28: when the child process of a target is spawned, the output directory of
\* the target holds nothing, and clearing it changes no output directory of
\* another target, no archive and no log file.
C28_CleanDirectoryAtSpawn ==
    [][/\ SpawnStep => <<os_name, arch>> \notin DOMAIN output_dirs
       /\ ClearStep =>
             /\ others(output_dirs') = others(output_dirs)
             /\ \A target \in others(output_dirs) :
                   output_dirs'[target] = output_dirs[target]
             /\ archives' = archives
             /\ build_logs' = build_logs]_vars

\* C29: when build_project has returned, the child process it spawned has
\* exited and both reader threads have ended, on every path through the call.
C29_NothingRunningAtReturn ==
    pc = "returned" =>
        /\ process.state # "running"
        /\ \A s \in Streams : threads[s] # "running"

\* C30: when build_project has returned, the status line of the log it wrote
\* says Success if it returned True and Failed if it returned False.
C30_LogStatusIsReturnedFlag ==
    pc = "returned" =>
        /\ log_file \in DOMAIN build_logs
        /\ build_logs[log_file][2] =
              <<"Status:", IF result[1] THEN "Success" ELSE "Failed">>

\* the process exited with 0 and the packager raised: the attempt returned
\* False and its log says Failed
C30_Witness ==
    /\ pc = "returned"
    /\ success
    /\ raised # ""
    /\ ~result[1]
    /\ build_logs[log_file][2] = <<"Status:", "Failed">>

\* C31: the call with a callback that does not raise and the same call without
\* a callback, over the same process behaviour, interleaving and failing calls,
\* hold the same archives and logs, and when build_project has returned they
\* have returned the same success flag and output text and written the same log.
C31_CallbackDoesNotChangeResult ==
    /\ no_callback.archives = archives
    /\ no_callback.build_logs = build_logs
    /\ pc = "returned" =>
          /\ no_callback.result = result
          /\ no_callback.log_file = log_file

\* a successful attempt has returned after its callback got a line and the two
\* reports of the packaging
C31_Witness ==
    /\ pc = "returned"
    /\ result[1]
    /\ Len(output) >= 1
    /\ Len(reports) = Len(output) + 2
    /\ expected_archive(selected_platforms[idx], config) \in DOMAIN archives

====
